---- MODULE Spec2Model ----
(***************************************************************************)
(* State-based Last-Writer-Wins element graph (LWWElementGraph<int,int>)   *)
(* built on the Last-Writer-Wins element set (LWWElementSet<int,int>).     *)
(* Several replicas apply AddVertex / RemoveVertex / AddEdge / RemoveEdge  *)
(* locally and fold each other's state in with Merge.                      *)
(***************************************************************************)
EXTENDS Integers, FiniteSets, Sequences, TLC

\* ------------------------------------------------------------------ bounds
\* Vertex keys are 0..MaxKey, timestamps 0..MaxTime, replicas 1..NumReplicas.
\* At most MaxOps distinct operations (kind, key(s), timestamp) are issued in
\* one behaviour of one or two replicas, at most MaxTrioOps in one behaviour of
\* three; a replica may apply an issued operation any number of times.
MaxKey == 1
MaxTime == 1
NumReplicas == 3
MaxOps == 3
MaxTrioOps == 2

\* A single graph that is built up and searched has vertex keys 0..MaxRouteKey,
\* timestamps 0..MaxRouteTime and at most MaxRouteOps distinct operations.
MaxRouteKey == 2
MaxRouteTime == 0
MaxRouteOps == 5

Keys == 0..MaxKey
Times == 0..MaxTime
Replicas == 1..NumReplicas
RouteKeys == 0..MaxRouteKey
RouteTimes == 0..MaxRouteTime

VARIABLES
    g,        \* g[r]: the LWWElementGraph object of replica r
    hist,     \* hist[r]: the operations replica r has incorporated, directly or
              \* through Merge (history variable)
    pc,       \* position of the caller of AnyPath: idle, loop, returned, threw
    qr,       \* AnyPath: the replica whose graph is searched
    qfrom,    \* AnyPath: parameter from
    qto,      \* AnyPath: parameter to
    queue,    \* AnyPath: std::queue<E> queue
    previous, \* AnyPath: std::unordered_map<E, E> previous
    path      \* AnyPath: the returned std::vector<E>

vars == <<g, hist, pc, qr, qfrom, qto, queue, previous, path>>
qvars == <<pc, qr, qfrom, qto, queue, previous, path>>

\* ------------------------------------------------------------ LWWElementSet
\* A std::unordered_map<E,T> is a function whose domain is its key set.
EmptyMap == [e \in {} |-> 0]

\* A default-constructed LWWElementSet: both maps empty.
EmptySet == [add |-> EmptyMap, remove |-> EmptyMap]

\* std::max on timestamps
Max(a, b) == IF a < b THEN b ELSE a

\* m[e] = t on an unordered_map: inserts the key or overwrites its value.
Put(m, e, t) == [x \in (DOMAIN m) \cup {e} |-> IF x = e THEN t ELSE m[x]]

AddExist(s, e) == e \in DOMAIN s.add

RemoveExist(s, e) == e \in DOMAIN s.remove

\* add.at(e): throws std::out_of_range when e was never added.
AddTimestamp(s, e) == IF e \in DOMAIN s.add THEN s.add[e] ELSE "out_of_range"

\* remove.at(e): throws std::out_of_range when e was never removed.
RemoveTimestamp(s, e) ==
    IF e \in DOMAIN s.remove THEN s.remove[e] ELSE "out_of_range"

\* Mutant of Add: the value applied last wins, whatever its timestamp.
AddLast(s, e, t) == [s EXCEPT !.add = Put(s.add, e, t)]

\* Mutant of Add: an existing timestamp is advanced past the maximum.
AddBump(s, e, t) ==
    IF AddExist(s, e)
    THEN [s EXCEPT !.add = Put(s.add, e, Max(s.add[e], t) + 1)]
    ELSE [s EXCEPT !.add = Put(s.add, e, t)]

\* Mutant of Add: an existing timestamp is kept, whatever the new one is.
AddFirst(s, e, t) ==
    IF AddExist(s, e) THEN s ELSE [s EXCEPT !.add = Put(s.add, e, t)]

Add(s, e, t) ==
    IF AddExist(s, e)
    THEN [s EXCEPT !.add = Put(s.add, e, Max(s.add[e], t))]
    ELSE [s EXCEPT !.add = Put(s.add, e, t)]

\* Mutant of Remove: the value applied last wins, whatever its timestamp.
RemoveLast(s, e, t) == [s EXCEPT !.remove = Put(s.remove, e, t)]

\* Mutant of Remove: an existing timestamp is advanced past the maximum.
RemoveBump(s, e, t) ==
    IF RemoveExist(s, e)
    THEN [s EXCEPT !.remove = Put(s.remove, e, Max(s.remove[e], t) + 1)]
    ELSE [s EXCEPT !.remove = Put(s.remove, e, t)]

\* Mutant of Remove: a remove that is not older than the recorded add erases
\* the add entry instead of leaving it shadowed.
RemoveErase(s, e, t) ==
    LET rem == IF RemoveExist(s, e) THEN Put(s.remove, e, Max(s.remove[e], t))
               ELSE Put(s.remove, e, t)
    IN IF AddExist(s, e) /\ s.add[e] <= t
       THEN [add |-> [x \in (DOMAIN s.add) \ {e} |-> s.add[x]], remove |-> rem]
       ELSE [s EXCEPT !.remove = rem]

Remove(s, e, t) ==
    IF RemoveExist(s, e)
    THEN [s EXCEPT !.remove = Put(s.remove, e, Max(s.remove[e], t))]
    ELSE [s EXCEPT !.remove = Put(s.remove, e, t)]

\* Mutant of Contains: an add wins a tie with a remove.
ContainsTieAdd(s, e) ==
    IF ~AddExist(s, e) THEN FALSE
    ELSE IF ~RemoveExist(s, e) THEN TRUE
    ELSE s.add[e] >= s.remove[e]

Contains(s, e) ==
    IF ~AddExist(s, e) THEN FALSE
    ELSE IF ~RemoveExist(s, e) THEN TRUE
    ELSE AddTimestamp(s, e) > RemoveTimestamp(s, e)

\* for (e, t) in m: Add(e, t) -- the range-for over the other set's add map
RECURSIVE AddAll(_, _, _)
AddAll(s, m, todo) ==
    IF todo = {} THEN s
    ELSE LET e == CHOOSE x \in todo : TRUE
         IN AddAll(Add(s, e, m[e]), m, todo \ {e})

\* for (e, t) in m: Remove(e, t)
RECURSIVE RemoveAll(_, _, _)
RemoveAll(s, m, todo) ==
    IF todo = {} THEN s
    ELSE LET e == CHOOSE x \in todo : TRUE
         IN RemoveAll(Remove(s, e, m[e]), m, todo \ {e})

\* Mutant of SetMerge: a remove is taken over only for an element that has
\* an add-timestamp after the adds were merged.
SetMergeKnownOnly(s, o) ==
    LET a == AddAll(s, o.add, DOMAIN o.add)
    IN RemoveAll(a, o.remove, (DOMAIN o.remove) \cap (DOMAIN a.add))

\* LWWElementSet::Merge
SetMerge(s, o) ==
    RemoveAll(AddAll(s, o.add, DOMAIN o.add), o.remove, DOMAIN o.remove)

\* ---------------------------------------------------------- LWWElementGraph
\* A default-constructed graph: empty vertex set, empty edge mapping.
EmptyGraph == [vertices |-> EmptySet, edges |-> [e \in {} |-> EmptySet]]

\* edges[from] on the unordered_map: default-constructs a missing entry.
EdgeSet(G, from) == IF from \in DOMAIN G.edges THEN G.edges[from] ELSE EmptySet

GraphAddVertex(G, e, t) == [G EXCEPT !.vertices = Add(G.vertices, e, t)]

\* Mutant of GraphRemoveVertex: the edge set of the removed vertex is erased.
GraphRemoveVertexCascade(G, e, t) ==
    [vertices |-> Remove(G.vertices, e, t),
     edges |-> [from \in (DOMAIN G.edges) \ {e} |-> G.edges[from]]]

GraphRemoveVertex(G, e, t) == [G EXCEPT !.vertices = Remove(G.vertices, e, t)]

GraphAddEdge(G, from, to, t) ==
    [G EXCEPT !.edges = Put(G.edges, from, Add(EdgeSet(G, from), to, t))]

GraphRemoveEdge(G, from, to, t) ==
    [G EXCEPT !.edges = Put(G.edges, from, Remove(EdgeSet(G, from), to, t))]

ContainsVertex(G, e) == Contains(G.vertices, e)

\* Mutant of ContainsEdge: an edge must be strictly younger than its vertices.
ContainsEdgeStrict(G, from, to) ==
    IF from \notin DOMAIN G.edges \/ ~Contains(G.edges[from], to) THEN FALSE
    ELSE IF ~ContainsVertex(G, from) \/ ~ContainsVertex(G, to) THEN FALSE
    ELSE LET addTimestamp == AddTimestamp(G.edges[from], to) IN
         IF \/ (RemoveExist(G.vertices, from)
                  /\ addTimestamp <= RemoveTimestamp(G.vertices, from))
            \/ (RemoveExist(G.vertices, to)
                  /\ addTimestamp <= RemoveTimestamp(G.vertices, to))
         THEN FALSE
         ELSE IF \/ addTimestamp <= AddTimestamp(G.vertices, from)
                 \/ addTimestamp <= AddTimestamp(G.vertices, to)
         THEN FALSE
         ELSE TRUE

\* Mutant of ContainsEdge: only the edge's own LWW set is consulted.
ContainsEdgeStructural(G, from, to) ==
    from \in DOMAIN G.edges /\ Contains(G.edges[from], to)

ContainsEdge(G, from, to) ==
    IF from \notin DOMAIN G.edges \/ ~Contains(G.edges[from], to) THEN FALSE
    ELSE IF ~ContainsVertex(G, from) \/ ~ContainsVertex(G, to) THEN FALSE
    ELSE LET addTimestamp == AddTimestamp(G.edges[from], to) IN
         IF \/ (RemoveExist(G.vertices, from)
                  /\ addTimestamp <= RemoveTimestamp(G.vertices, from))
            \/ (RemoveExist(G.vertices, to)
                  /\ addTimestamp <= RemoveTimestamp(G.vertices, to))
         THEN FALSE
         ELSE IF \/ addTimestamp < AddTimestamp(G.vertices, from)
                 \/ addTimestamp < AddTimestamp(G.vertices, to)
         THEN FALSE
         ELSE TRUE

\* Mutant of AllConnectedVertices: the sources of incoming edges are left out.
AllConnectedOutgoing(G, e) ==
    UNION {IF from = e
           THEN {to \in DOMAIN G.edges[from].add : ContainsEdge(G, from, to)}
           ELSE {} :
           from \in DOMAIN G.edges}

\* LWWElementGraph::AllConnectedVertices: the std::set filled by the scan of
\* every edge set; the entry of e itself gives the targets of its valid edges,
\* every other entry gives its source when it holds a valid edge to e.
AllConnectedVertices(G, e) ==
    UNION {IF from = e
           THEN {to \in DOMAIN G.edges[from].add : ContainsEdge(G, from, to)}
           ELSE {from : to \in {x \in DOMAIN G.edges[from].add :
                                    x = e /\ ContainsEdge(G, from, x)}} :
           from \in DOMAIN G.edges}

\* A call of a throwing accessor (AddTimestamp, RemoveTimestamp, edges.at) and
\* whether the key it looks up is there; it throws std::out_of_range if not.
Call(fn, found) == [fn |-> fn, found |-> found]

\* The accessor calls LWWElementSet::Contains(e) makes.
ContainsCalls(s, e) ==
    IF ~AddExist(s, e) THEN {}
    ELSE IF ~RemoveExist(s, e) THEN {}
    ELSE {Call("AddTimestamp", AddExist(s, e)),
          Call("RemoveTimestamp", RemoveExist(s, e))}

\* Mutant of RemovalCalls: RemoveTimestamp is called without asking
\* RemoveExist first.
RemovalCallsUnguarded(G, v) == {Call("RemoveTimestamp", RemoveExist(G.vertices, v))}

\* The accessor calls of "vertices.RemoveExist(v) && addTimestamp <=
\* vertices.RemoveTimestamp(v)": && evaluates its right side only when the
\* left side holds.
RemovalCalls(G, v) ==
    IF RemoveExist(G.vertices, v)
    THEN {Call("RemoveTimestamp", RemoveExist(G.vertices, v))}
    ELSE {}

\* The accessor calls LWWElementGraph::ContainsEdge(from, to) makes, in the
\* order of its statements and up to the return it takes or the first call
\* that throws.
ContainsEdgeCalls(G, from, to) ==
    IF from \notin DOMAIN G.edges THEN {}
    ELSE LET c1 == {Call("edges.at", from \in DOMAIN G.edges)}
                       \cup ContainsCalls(G.edges[from], to) IN
    IF ~Contains(G.edges[from], to) THEN c1
    ELSE LET c2 == c1 \cup ContainsCalls(G.vertices, from) IN
    IF ~ContainsVertex(G, from) THEN c2
    ELSE LET c3 == c2 \cup ContainsCalls(G.vertices, to) IN
    IF ~ContainsVertex(G, to) THEN c3
    ELSE LET c4 == c3 \cup {Call("AddTimestamp", AddExist(G.edges[from], to))} IN
    IF ~AddExist(G.edges[from], to) THEN c4
    ELSE LET addTimestamp == G.edges[from].add[to]
             c5 == c4 \cup RemovalCalls(G, from) IN
    IF \E c \in c5 : ~c.found THEN c5
    ELSE IF RemoveExist(G.vertices, from) /\ addTimestamp <= G.vertices.remove[from]
    THEN c5
    ELSE LET c6 == c5 \cup RemovalCalls(G, to) IN
    IF \E c \in c6 : ~c.found THEN c6
    ELSE IF RemoveExist(G.vertices, to) /\ addTimestamp <= G.vertices.remove[to]
    THEN c6
    ELSE LET c7 == c6 \cup {Call("AddTimestamp", AddExist(G.vertices, from))} IN
    IF ~AddExist(G.vertices, from) THEN c7
    ELSE IF addTimestamp < G.vertices.add[from] THEN c7
    ELSE c7 \cup {Call("AddTimestamp", AddExist(G.vertices, to))}

\* The accessor calls LWWElementGraph::AllConnectedVertices(e) makes: those
\* of the ContainsEdge calls of its scan.
AllConnectedCalls(G, e) ==
    UNION {UNION {ContainsEdgeCalls(G, from, to) :
                     to \in {x \in DOMAIN G.edges[from].add : from = e \/ x = e}} :
              from \in DOMAIN G.edges}

\* Mutant of MergeEdges: a source key the local mapping lacks is skipped
\* instead of created.
RECURSIVE MergeEdgesExisting(_, _, _)
MergeEdgesExisting(m, o, todo) ==
    IF todo = {} THEN m
    ELSE LET from == CHOOSE x \in todo : TRUE
         IN MergeEdgesExisting(
                IF from \in DOMAIN m
                THEN Put(m, from, SetMerge(m[from], o[from]))
                ELSE m,
                o, todo \ {from})

\* Mutant of MergeEdges: the other replica's edge set is assigned to the
\* source key instead of merged into it.
RECURSIVE MergeEdgesAssign(_, _, _)
MergeEdgesAssign(m, o, todo) ==
    IF todo = {} THEN m
    ELSE LET from == CHOOSE x \in todo : TRUE
         IN MergeEdgesAssign(Put(m, from, o[from]), o, todo \ {from})

\* for (from, edge) in H.edges: edges[from].Merge(edge)
RECURSIVE MergeEdges(_, _, _)
MergeEdges(m, o, todo) ==
    IF todo = {} THEN m
    ELSE LET from == CHOOSE x \in todo : TRUE
             mine == IF from \in DOMAIN m THEN m[from] ELSE EmptySet
         IN MergeEdges(Put(m, from, SetMerge(mine, o[from])), o, todo \ {from})

\* Mutant of GraphMerge: the edge sets of the other replica are not joined.
GraphMergeVertices(G, H) ==
    [vertices |-> SetMerge(G.vertices, H.vertices), edges |-> G.edges]

\* LWWElementGraph::Merge
GraphMerge(G, H) ==
    [vertices |-> SetMerge(G.vertices, H.vertices),
     edges    |-> MergeEdges(G.edges, H.edges, DOMAIN H.edges)]

\* LWWElementGraph::operator==: raw maps, not derived visibility.
GraphEq(G, H) == G.vertices = H.vertices /\ G.edges = H.edges

\* ------------------------------------------------------------------ actions
Init ==
    /\ g = [r \in Replicas |-> EmptyGraph]
    /\ hist = [r \in Replicas |-> {}]
    /\ pc = "idle"
    /\ qr = 1
    /\ qfrom = 0
    /\ qto = 0
    /\ queue = <<>>
    /\ previous = EmptyMap
    /\ path = <<>>

\* The operations issued so far anywhere in the system.
Issued == UNION {hist[r] : r \in Replicas}

\* Run bound: a new operation may be issued while fewer than n exist.
CanIssue(n, op) == op \in Issued \/ Cardinality(Issued) < n

AddVertex(r, e, t) ==
    /\ pc = "idle"
    /\ g' = [g EXCEPT ![r] = GraphAddVertex(g[r], e, t)]
    /\ hist' = [hist EXCEPT ![r] = @ \cup {<<"AddVertex", e, e, t>>}]
    /\ UNCHANGED qvars

RemoveVertex(r, e, t) ==
    /\ pc = "idle"
    /\ g' = [g EXCEPT ![r] = GraphRemoveVertex(g[r], e, t)]
    /\ hist' = [hist EXCEPT ![r] = @ \cup {<<"RemoveVertex", e, e, t>>}]
    /\ UNCHANGED qvars

AddEdge(r, from, to, t) ==
    /\ pc = "idle"
    /\ g' = [g EXCEPT ![r] = GraphAddEdge(g[r], from, to, t)]
    /\ hist' = [hist EXCEPT ![r] = @ \cup {<<"AddEdge", from, to, t>>}]
    /\ UNCHANGED qvars

RemoveEdge(r, from, to, t) ==
    /\ pc = "idle"
    /\ g' = [g EXCEPT ![r] = GraphRemoveEdge(g[r], from, to, t)]
    /\ hist' = [hist EXCEPT ![r] = @ \cup {<<"RemoveEdge", from, to, t>>}]
    /\ UNCHANGED qvars

\* r.Merge(o): o is read only.
Merge(r, o) ==
    /\ pc = "idle"
    /\ g' = [g EXCEPT ![r] = GraphMerge(g[r], g[o])]
    /\ hist' = [hist EXCEPT ![r] = @ \cup hist[o]]
    /\ UNCHANGED qvars

\* ------------------------------------------------------------------ AnyPath
\* The vector filled by "for(; e != from; e = previous[e]) path.push_back(e);
\* path.push_back(e);", in push order. previous[e] on a missing key would
\* default-construct the int 0.
RECURSIVE PathBack(_, _, _)
PathBack(prev, from, e) ==
    IF e = from THEN <<e>>
    ELSE <<e>> \o PathBack(prev, from, IF e \in DOMAIN prev THEN prev[e] ELSE 0)

\* std::reverse
Reverse(s) == [i \in 1..Len(s) |-> s[Len(s) + 1 - i]]

\* The orders in which a range-for may visit the keys of an unordered_map.
Orders(S) == {s \in [1..Cardinality(S) -> S] : \A x \in S : \E i \in DOMAIN s : s[i] = x}

\* Mutant of Fresh: the test previous.find(next) == previous.end() is left out.
FreshRevisit(G, prev, e) ==
    {n \in DOMAIN G.edges[e].add : ContainsEdge(G, e, n)}

\* The neighbours the loop body pushes when it expands e.
Fresh(G, prev, e) ==
    {n \in DOMAIN G.edges[e].add : n \notin DOMAIN prev /\ ContainsEdge(G, e, n)}

\* previous after the loop body has run over the neighbours of e.
Visit(prev, fresh, e) ==
    [x \in (DOMAIN prev) \cup fresh |-> IF x \in fresh THEN e ELSE prev[x]]

\* The while loop of AnyPath from a given queue and predecessor map: the set
\* of outcomes over the iteration orders of the edge maps. An outcome is the
\* returned vector, or threw when edges.at(e) raised std::out_of_range.
RECURSIVE Search(_, _, _, _, _)
Search(G, from, to, q, prev) ==
    IF q = <<>> THEN {[threw |-> FALSE, path |-> <<>>]}
    ELSE LET e == Head(q) IN
         IF e = to
         THEN {[threw |-> FALSE, path |-> Reverse(PathBack(prev, from, e))]}
         ELSE IF e \notin DOMAIN G.edges
         THEN {[threw |-> TRUE, path |-> <<>>]}
         ELSE LET fresh == Fresh(G, prev, e)
              IN UNION {Search(G, from, to, Tail(q) \o ord, Visit(prev, fresh, e)) :
                            ord \in Orders(fresh)}

\* LWWElementGraph::AnyPath as a function of the graph: its possible outcomes.
AnyPath(G, from, to) ==
    IF ~ContainsVertex(G, from) \/ ~ContainsVertex(G, to)
    THEN {[threw |-> FALSE, path |-> <<>>]}
    ELSE Search(G, from, to, <<from>>, Put(EmptyMap, from, from))

\* Entry of AnyPath(from, to) up to the while loop.
AnyPathCall(r, from, to) ==
    /\ pc = "idle"
    /\ qr' = r /\ qfrom' = from /\ qto' = to
    /\ IF ~ContainsVertex(g[r], from) \/ ~ContainsVertex(g[r], to)
       THEN /\ pc' = "returned"
            /\ path' = <<>>
            /\ queue' = <<>>
            /\ previous' = EmptyMap
       ELSE /\ pc' = "loop"
            /\ queue' = <<from>>
            /\ previous' = Put(EmptyMap, from, from)
            /\ path' = <<>>
    /\ UNCHANGED <<g, hist>>

\* while (!queue.empty()) fails: return std::vector<E>().
AnyPathExhausted ==
    /\ pc = "loop"
    /\ queue = <<>>
    /\ pc' = "returned"
    /\ path' = <<>>
    /\ UNCHANGED <<g, hist, qr, qfrom, qto, queue, previous>>

\* One iteration that pops e == to: rebuild the path and return it.
AnyPathFound ==
    /\ pc = "loop"
    /\ queue # <<>>
    /\ Head(queue) = qto
    /\ pc' = "returned"
    /\ path' = Reverse(PathBack(previous, qfrom, Head(queue)))
    /\ queue' = Tail(queue)
    /\ UNCHANGED <<g, hist, qr, qfrom, qto, previous>>

\* One iteration that pops e != to where edges has no entry for e:
\* edges.at(e) throws std::out_of_range, which nothing catches.
AnyPathThrow ==
    /\ pc = "loop"
    /\ queue # <<>>
    /\ Head(queue) # qto
    /\ Head(queue) \notin DOMAIN g[qr].edges
    /\ pc' = "threw"
    /\ queue' = Tail(queue)
    /\ UNCHANGED <<g, hist, qr, qfrom, qto, previous, path>>

\* One iteration that pops e != to and walks edges.at(e).GetAdd().
AnyPathExpand ==
    /\ pc = "loop"
    /\ queue # <<>>
    /\ Head(queue) # qto
    /\ Head(queue) \in DOMAIN g[qr].edges
    /\ LET e == Head(queue)
           fresh == Fresh(g[qr], previous, e)
       IN /\ \E ord \in Orders(fresh) : queue' = Tail(queue) \o ord
          /\ previous' = Visit(previous, fresh, e)
    /\ UNCHANGED <<g, hist, pc, qr, qfrom, qto, path>>

\* The caller takes the returned vector; the locals of the call are gone.
AnyPathReturn ==
    /\ pc = "returned"
    /\ pc' = "idle"
    /\ queue' = <<>>
    /\ previous' = EmptyMap
    /\ path' = <<>>
    /\ UNCHANGED <<g, hist, qr, qfrom, qto>>

\* One step of a system in which the replicas of R are mutated and merged,
\* with at most n distinct operations.
Step(R, n) ==
    \/ \E r \in R, e \in Keys, t \in Times :
          CanIssue(n, <<"AddVertex", e, e, t>>) /\ AddVertex(r, e, t)
    \/ \E r \in R, e \in Keys, t \in Times :
          CanIssue(n, <<"RemoveVertex", e, e, t>>) /\ RemoveVertex(r, e, t)
    \/ \E r \in R, from \in Keys, to \in Keys, t \in Times :
          CanIssue(n, <<"AddEdge", from, to, t>>) /\ AddEdge(r, from, to, t)
    \/ \E r \in R, from \in Keys, to \in Keys, t \in Times :
          CanIssue(n, <<"RemoveEdge", from, to, t>>) /\ RemoveEdge(r, from, to, t)
    \/ \E r \in R, o \in R : Merge(r, o)

\* Three replicas, as a, b and c of the associativity test.
Next == Step(Replicas, MaxTrioOps)

Spec == Init /\ [][Next]_vars

\* Two replicas, as a and b of the commutativity test; the third stays as
\* constructed.
Pair == {1, 2}

NextPair == Step(Pair, MaxOps)

SpecPair == Init /\ [][NextPair]_vars

\* The three replicas when every Merge(r, o) that would change r is
\* eventually performed: the caller keeps merging every ordered pair.
SpecFair ==
    Spec /\ \A r \in Replicas : \A o \in Replicas \ {r} : WF_vars(Merge(r, o))

\* One replica that mutates its graph and queries it with AnyPath.
NextPath ==
    \/ Step({1}, MaxOps)
    \/ \E from \in Keys, to \in Keys : AnyPathCall(1, from, to)
    \/ AnyPathExhausted
    \/ AnyPathFound
    \/ AnyPathThrow
    \/ AnyPathExpand
    \/ AnyPathReturn

SpecPath == Init /\ [][NextPath]_vars

\* One replica over a third vertex key that is built up at one timestamp, as
\* by the loops of the large path test, loses vertices again and is queried
\* with AnyPath: room for a fork, a chain and a cycle next to a vertex that
\* has no edge-set entry.
NextRoute ==
    \/ \E e \in RouteKeys, t \in RouteTimes :
          CanIssue(MaxRouteOps, <<"AddVertex", e, e, t>>) /\ AddVertex(1, e, t)
    \/ \E e \in RouteKeys, t \in RouteTimes :
          CanIssue(MaxRouteOps, <<"RemoveVertex", e, e, t>>) /\ RemoveVertex(1, e, t)
    \/ \E from \in RouteKeys, to \in RouteKeys, t \in RouteTimes :
          CanIssue(MaxRouteOps, <<"AddEdge", from, to, t>>) /\ AddEdge(1, from, to, t)
    \/ \E from \in RouteKeys, to \in RouteKeys : AnyPathCall(1, from, to)
    \/ AnyPathExhausted
    \/ AnyPathFound
    \/ AnyPathThrow
    \/ AnyPathExpand
    \/ AnyPathReturn

SpecRoute == Init /\ [][NextRoute]_vars

\* The same, where a call of AnyPath that has entered its loop keeps running:
\* the loop has no suspension point.
SpecRouteFair ==
    SpecRoute
    /\ WF_vars(AnyPathExhausted \/ AnyPathFound \/ AnyPathThrow \/ AnyPathExpand)

\* ------------------------------------------------------------------- claims
\* Timestamps of the vertex operations of one kind replica r has incorporated.
VertexOpTimes(r, kind, e) == {t \in Times : <<kind, e, e, t>> \in hist[r]}

SetMax(S) == CHOOSE x \in S : \A y \in S : y <= x

\* C1: two replicas that have incorporated the same set of operations are
\* equal under operator==, whatever the order of operations and merges.
C1_SameOpsSameState ==
    \A r \in Replicas, o \in Replicas :
        hist[r] = hist[o] => GraphEq(g[r], g[o])

\* Two different replicas hold the same two or more operations.
C1_Witness ==
    \E r \in Replicas, o \in Replicas :
        /\ r # o
        /\ hist[r] = hist[o]
        /\ Cardinality(hist[r]) >= 2
        /\ g[r].edges # EmptyGraph.edges
        /\ g[r].vertices # EmptySet

\* C2: merging B into A and merging A into B give the same ContainsVertex
\* answer for every vertex and the same ContainsEdge answer for every pair.
C2_MergeCommutesVisible ==
    \A r \in Replicas, o \in Replicas :
        LET ab == GraphMerge(g[r], g[o])
            ba == GraphMerge(g[o], g[r])
        IN /\ \A e \in Keys : ContainsVertex(ab, e) = ContainsVertex(ba, e)
           /\ \A from \in Keys, to \in Keys :
                  ContainsEdge(ab, from, to) = ContainsEdge(ba, from, to)

\* Two replicas that disagree on a vertex's timestamps and whose merge shows
\* an edge neither shows alone.
C2_Witness ==
    \E r \in Replicas, o \in Replicas, from \in Keys, to \in Keys :
        /\ ~GraphEq(g[r], g[o])
        /\ ~ContainsEdge(g[r], from, to)
        /\ ~ContainsEdge(g[o], from, to)
        /\ ContainsEdge(GraphMerge(g[r], g[o]), from, to)

\* C3: (A merge B) merge C equals A merge (B merge C) under operator==, for
\* the graphs A, B, C of any three replicas.
C3_MergeAssociative ==
    \A a \in Replicas, b \in Replicas, c \in Replicas :
        GraphEq(GraphMerge(GraphMerge(g[a], g[b]), g[c]),
                GraphMerge(g[a], GraphMerge(g[b], g[c])))

\* Three replicas with pairwise different, non-empty states: one holds only a
\* remove of a vertex, one only an add of it, one both.
C3_Witness ==
    \E a \in Replicas, b \in Replicas, c \in Replicas, e \in Keys :
        /\ RemoveExist(g[a].vertices, e) /\ ~AddExist(g[a].vertices, e)
        /\ AddExist(g[b].vertices, e) /\ ~RemoveExist(g[b].vertices, e)
        /\ AddExist(g[c].vertices, e) /\ RemoveExist(g[c].vertices, e)
        /\ hist[c] = hist[a] \cup hist[b]

\* C4: G.Merge(G) leaves G unchanged, and merging the same other replica a
\* second time changes nothing.
C4_MergeIdempotent ==
    \A r \in Replicas :
        /\ GraphEq(GraphMerge(g[r], g[r]), g[r])
        /\ \A o \in Replicas :
               LET once == GraphMerge(g[r], g[o])
               IN GraphEq(GraphMerge(once, g[o]), once)

\* A replica with vertex and edge entries that has merged a different,
\* non-empty replica.
C4_Witness ==
    \E r \in Replicas, o \in Replicas :
        /\ hist[o] # {} /\ hist[o] \subseteq hist[r] /\ hist[o] # hist[r]
        /\ g[r] = GraphMerge(g[r], g[o])
        /\ g[r].vertices # EmptySet
        /\ g[r].edges # EmptyGraph.edges

\* C5: after a.Merge(b) followed by b.Merge(a) the two replicas are equal
\* under operator==.
C5_TwoWayMergeEqual ==
    \A a \in Replicas, b \in Replicas :
        LET a1 == GraphMerge(g[a], g[b])
            b1 == GraphMerge(g[b], a1)
        IN GraphEq(a1, b1)

\* After only a.Merge(b) the replicas need not be equal: a holds everything
\* b holds, b is not empty, and they differ in vertices and in edges.
C5_Witness ==
    \E a \in Replicas, b \in Replicas :
        /\ hist[b] # {} /\ hist[b] \subseteq hist[a]
        /\ g[a] = GraphMerge(g[a], g[b])
        /\ g[a].vertices # g[b].vertices
        /\ g[a].edges # g[b].edges
        /\ g[b].edges # EmptyGraph.edges

\* The operations a caller can issue, and the method each one calls.
AllOps ==
    {<<k, e, e, t>> : k \in {"AddVertex", "RemoveVertex"}, e \in Keys, t \in Times}
    \cup {<<k, from, to, t>> : k \in {"AddEdge", "RemoveEdge"},
                              from \in Keys, to \in Keys, t \in Times}

ApplyOp(G, op) ==
    CASE op[1] = "AddVertex" -> GraphAddVertex(G, op[2], op[4])
      [] op[1] = "RemoveVertex" -> GraphRemoveVertex(G, op[2], op[4])
      [] op[1] = "AddEdge" -> GraphAddEdge(G, op[2], op[3], op[4])
      [] op[1] = "RemoveEdge" -> GraphRemoveEdge(G, op[2], op[3], op[4])

\* C6: applying the same mutating operation twice in a row yields a state
\* equal under operator== to applying it once.
C6_OpIdempotent ==
    \A r \in Replicas, op \in AllOps :
        LET once == ApplyOp(g[r], op)
        IN GraphEq(ApplyOp(once, op), once)

\* A replica on which a remove and an edge add have already been applied and
\* where re-applying them is a no-op.
C6_Witness ==
    \E r \in Replicas, e \in Keys, to \in Keys, t \in Times :
        /\ <<"RemoveVertex", e, e, t>> \in hist[r]
        /\ <<"AddEdge", e, to, t>> \in hist[r]
        /\ ApplyOp(g[r], <<"RemoveVertex", e, e, t>>) = g[r]
        /\ ApplyOp(g[r], <<"AddEdge", e, to, t>>) = g[r]

\* C7: ContainsVertex(e) iff an add-timestamp is recorded and either no
\* remove-timestamp is recorded or the add-timestamp is strictly greater;
\* the recorded timestamps being the greatest add and the greatest remove the
\* replica incorporated, a tie of the two leaves e absent.
C7_ContainsVertexRule ==
    \A r \in Replicas, e \in Keys :
        LET V == g[r].vertices
            adds == VertexOpTimes(r, "AddVertex", e)
            rems == VertexOpTimes(r, "RemoveVertex", e)
        IN /\ ContainsVertex(g[r], e) <=>
                 /\ e \in DOMAIN V.add
                 /\ (e \notin DOMAIN V.remove \/ V.add[e] > V.remove[e])
           /\ ContainsVertex(g[r], e) <=>
                 /\ adds # {}
                 /\ (rems = {} \/ SetMax(adds) > SetMax(rems))

\* A replica that holds an add and a remove of one vertex with equal
\* timestamps, beside a replica that holds only the add: the vertex is absent
\* on the first.
C7_Witness ==
    \E r \in Replicas, o \in Replicas, e \in Keys, t \in Times :
        /\ r # o
        /\ hist[o] = {<<"AddVertex", e, e, t>>}
        /\ hist[r] = {<<"RemoveVertex", e, e, t>>, <<"AddVertex", e, e, t>>}
        /\ g[r].vertices.add[e] = g[r].vertices.remove[e]
        /\ ~ContainsVertex(g[r], e)

\* The four conditions of the edge validity predicate, on the raw maps.
EdgeStructural(G, from, to) ==
    /\ from \in DOMAIN G.edges
    /\ to \in DOMAIN G.edges[from].add
    /\ (to \in DOMAIN G.edges[from].remove
          => G.edges[from].add[to] > G.edges[from].remove[to])

EndpointsAlive(G, from, to) == ContainsVertex(G, from) /\ ContainsVertex(G, to)

NotRemovalDominated(G, from, to) ==
    \A v \in {from, to} :
        v \in DOMAIN G.vertices.remove
            => ~(G.vertices.remove[v] >= G.edges[from].add[to])

NotBeforeEndpoints(G, from, to) ==
    \A v \in {from, to} : G.edges[from].add[to] >= G.vertices.add[v]

\* C8: ContainsEdge(from, to) is true exactly when (1) the edge is in
\* edges[from], (2) both endpoints pass ContainsVertex, (3) no endpoint has a
\* remove-timestamp >= the edge's add-timestamp and (4) the edge's
\* add-timestamp is >= the add-timestamp of both endpoints.
C8_ContainsEdgeRule ==
    \A r \in Replicas, from \in Keys, to \in Keys :
        ContainsEdge(g[r], from, to) <=>
            /\ EdgeStructural(g[r], from, to)
            /\ EndpointsAlive(g[r], from, to)
            /\ NotRemovalDominated(g[r], from, to)
            /\ NotBeforeEndpoints(g[r], from, to)

\* A visible edge between two different vertices whose add-timestamp equals
\* the add-timestamp of an endpoint.
C8_Witness ==
    \E r \in Replicas, from \in Keys, to \in Keys :
        /\ from # to
        /\ ContainsEdge(g[r], from, to)
        /\ g[r].edges[from].add[to] = g[r].vertices.add[to]

\* Edges from or to v with a recorded add-timestamp of at most ts.
IncidentUpTo(G, v, ts) ==
    {p \in Keys \X Keys :
        /\ v \in {p[1], p[2]}
        /\ p[1] \in DOMAIN G.edges
        /\ p[2] \in DOMAIN G.edges[p[1]].add
        /\ G.edges[p[1]].add[p[2]] <= ts}

\* In this state: an edge added no later than an endpoint's removal is absent,
\* and so is every edge of a vertex that is not contained.
C9_Now ==
    \A r \in Replicas, v \in Keys :
        /\ RemoveExist(g[r].vertices, v) =>
              \A p \in IncidentUpTo(g[r], v, g[r].vertices.remove[v]) :
                  ~ContainsEdge(g[r], p[1], p[2])
        /\ ~ContainsVertex(g[r], v) =>
              \A w \in Keys : ~ContainsEdge(g[r], v, w) /\ ~ContainsEdge(g[r], w, v)

\* Across a step: a recorded remove-timestamp stays recorded, and the edges
\* added no later than it are absent afterwards too.
C9_Step ==
    \A r \in Replicas, v \in Keys :
        RemoveExist(g[r].vertices, v) =>
            /\ RemoveExist(g'[r].vertices, v)
            /\ \A p \in IncidentUpTo(g'[r], v, g[r].vertices.remove[v]) :
                   ~ContainsEdge(g'[r], p[1], p[2])

\* C9: once a vertex v has a remove-timestamp r recorded, every edge incident
\* to v whose add-timestamp is <= r is absent in that state and in every later
\* state, also after v is re-added later than r; and no edge of a vertex that
\* is not contained is visible.
C9_RemovalInvalidatesEdges == [](C9_Now) /\ [][C9_Step]_vars

\* A vertex re-added after its removal, with an edge to a contained vertex
\* that its own LWW set contains and that was added no later than the removal.
C9_Witness ==
    \E r \in Replicas, v \in Keys, w \in Keys :
        /\ RemoveExist(g[r].vertices, v)
        /\ ContainsVertex(g[r], v)
        /\ ContainsVertex(g[r], w)
        /\ EdgeStructural(g[r], v, w)
        /\ g[r].edges[v].add[w] <= g[r].vertices.remove[v]
        /\ ~ContainsEdge(g[r], v, w)

\* The vertices a directed path of currently valid edges leads to from the
\* vertices of S.
RECURSIVE Closure(_, _)
Closure(G, S) ==
    LET more == {n \in Keys : \E e \in S : ContainsEdge(G, e, n)}
    IN IF more \subseteq S THEN S ELSE Closure(G, S \cup more)

\* C10: AnyPath(from, to) returns an empty sequence and never fails when an
\* endpoint does not pass ContainsVertex or no directed path of valid edges
\* leads from from to to, also when it expands a vertex without an edge-set
\* entry.
C10_AnyPathEmptyNeverFails ==
    (/\ pc \in {"returned", "threw"}
     /\ \/ ~ContainsVertex(g[qr], qfrom)
        \/ ~ContainsVertex(g[qr], qto)
        \/ qto \notin Closure(g[qr], {qfrom}))
    => (pc = "returned" /\ path = <<>>)

\* Every vertex key a specification uses.
AllKeys == Keys \cup RouteKeys

\* The vertices reached from the vertices of S over at most n valid edges.
RECURSIVE Within(_, _, _)
Within(G, S, n) ==
    IF n = 0 THEN S
    ELSE Within(G, S \cup {v \in AllKeys : \E e \in S : ContainsEdge(G, e, v)}, n - 1)

Reachable(G, from, to) == to \in Within(G, {from}, Cardinality(AllKeys))

\* The number of edges of a shortest valid path from from to a reachable to.
Distance(G, from, to) ==
    CHOOSE n \in 0..Cardinality(AllKeys) :
        /\ to \in Within(G, {from}, n)
        /\ \A m \in 0..(n - 1) : to \notin Within(G, {from}, m)

\* p leads from from to to over valid edges only.
IsValidPath(G, p, from, to) ==
    /\ Len(p) >= 1
    /\ p[1] = from
    /\ p[Len(p)] = to
    /\ \A i \in 1..(Len(p) - 1) : ContainsEdge(G, p[i], p[i + 1])

\* C11: when both endpoints pass ContainsVertex and a directed path of valid
\* edges leads from from to to, AnyPath(from, to) returns a sequence that
\* starts with from, ends with to, follows valid edges only and has the fewest
\* vertices possible; it is <<from>> when from = to.
C11_AnyPathShortest ==
    (/\ pc \in {"returned", "threw"}
     /\ ContainsVertex(g[qr], qfrom)
     /\ ContainsVertex(g[qr], qto)
     /\ Reachable(g[qr], qfrom, qto))
    => /\ pc = "returned"
       /\ IsValidPath(g[qr], path, qfrom, qto)
       /\ Len(path) = Distance(g[qr], qfrom, qto) + 1
       /\ (qfrom = qto => path = <<qfrom>>)

\* C12: AllConnectedVertices(e) is exactly the set of keys v with
\* ContainsEdge(e, v) or ContainsEdge(v, e); a valid self-loop contributes e,
\* an edge that is recorded but not valid contributes nothing.
C12_AllConnectedExact ==
    \A r \in Replicas, e \in AllKeys :
        AllConnectedVertices(g[r], e) =
            {v \in AllKeys : ContainsEdge(g[r], e, v) \/ ContainsEdge(g[r], v, e)}

\* A vertex with a valid edge to another vertex, a valid edge from another
\* vertex, and a recorded edge that is not valid and whose target is not
\* among the connected vertices.
C12_Witness ==
    \E r \in Replicas, e \in AllKeys, v \in AllKeys, w \in AllKeys, x \in AllKeys :
        /\ v # e /\ ContainsEdge(g[r], e, v)
        /\ w # e /\ ContainsEdge(g[r], w, e)
        /\ EdgeStructural(g[r], e, x) /\ ~ContainsEdge(g[r], e, x)
        /\ AllConnectedVertices(g[r], e) = {v, w}
        /\ x \notin AllConnectedVertices(g[r], e)

\* A local AddVertex, RemoveVertex, AddEdge or RemoveEdge on some replica.
LocalOp ==
    \/ \E r \in Replicas, e \in Keys, t \in Times :
          AddVertex(r, e, t) \/ RemoveVertex(r, e, t)
    \/ \E r \in Replicas, from \in Keys, to \in Keys, t \in Times :
          AddEdge(r, from, to, t) \/ RemoveEdge(r, from, to, t)

Converged == \A r \in Replicas, o \in Replicas : GraphEq(g[r], g[o])

\* C13: if the local operations eventually stop while every ordered pair of
\* replicas keeps merging, then eventually all replicas are equal under
\* operator== and stay equal for ever.
C13_EventualConvergence == (<>[][~LocalOp]_vars) => <>[]Converged

\* All three replicas equal, holding every issued operation, with a vertex
\* entry and an edge entry.
C13_Witness ==
    /\ Converged
    /\ \A r \in Replicas : hist[r] = Issued
    /\ Cardinality(Issued) = MaxTrioOps
    /\ g[1].vertices # EmptySet
    /\ g[1].edges # EmptyGraph.edges

\* Timestamps of the operations of one kind on (a, b) replica r incorporated.
OpTimes(r, kind, a, b) == {t \in Times : <<kind, a, b, t>> \in hist[r]}

\* The map m stores for key e exactly the greatest timestamp of ts, and no
\* entry when ts is empty.
StoresMax(m, e, ts) ==
    /\ e \in DOMAIN m <=> ts # {}
    /\ e \in DOMAIN m => m[e] = SetMax(ts)

\* C14: on every replica, for every element of the vertex set and of every
\* per-source edge set, the stored add-timestamp is the greatest timestamp of
\* the add operations applied locally or incorporated through Merge, the
\* stored remove-timestamp the greatest of the remove operations, and a
\* timestamp is stored iff there was such an operation.
C14_StoredIsMaximum ==
    \A r \in Replicas :
        /\ \A e \in Keys :
              /\ StoresMax(g[r].vertices.add, e, OpTimes(r, "AddVertex", e, e))
              /\ StoresMax(g[r].vertices.remove, e, OpTimes(r, "RemoveVertex", e, e))
        /\ \A from \in Keys, to \in Keys :
              /\ StoresMax(EdgeSet(g[r], from).add, to, OpTimes(r, "AddEdge", from, to))
              /\ StoresMax(EdgeSet(g[r], from).remove, to,
                           OpTimes(r, "RemoveEdge", from, to))
        /\ \A from \in Keys :
              from \in DOMAIN g[r].edges <=>
                  \E to \in Keys : OpTimes(r, "AddEdge", from, to)
                                      \cup OpTimes(r, "RemoveEdge", from, to) # {}

\* A replica that incorporated two adds of one edge with different timestamps
\* and stores the greater, beside a replica that incorporated only the smaller
\* one and stores that.
C14_Witness ==
    \E r \in Replicas, o \in Replicas, from \in Keys, to \in Keys :
        /\ r # o
        /\ OpTimes(o, "AddEdge", from, to) = {0}
        /\ OpTimes(r, "AddEdge", from, to) = {0, 1}
        /\ g[r].edges[from].add[to] = 1
        /\ g[o].edges[from].add[to] = 0
        /\ hist[o] \subseteq hist[r]

\* Key-wise union of two timestamp maps, the greater timestamp on shared keys.
JoinMap(m, n) ==
    [e \in (DOMAIN m) \cup (DOMAIN n) |->
        IF e \notin DOMAIN n THEN m[e]
        ELSE IF e \notin DOMAIN m THEN n[e]
        ELSE IF m[e] >= n[e] THEN m[e] ELSE n[e]]

JoinSet(s, o) == [add |-> JoinMap(s.add, o.add), remove |-> JoinMap(s.remove, o.remove)]

JoinGraph(G, H) ==
    [vertices |-> JoinSet(G.vertices, H.vertices),
     edges |-> [from \in (DOMAIN G.edges) \cup (DOMAIN H.edges) |->
                   IF from \notin DOMAIN H.edges THEN G.edges[from]
                   ELSE IF from \notin DOMAIN G.edges
                        THEN JoinSet(EmptySet, H.edges[from])
                        ELSE JoinSet(G.edges[from], H.edges[from])]]

\* C15: A.Merge(B) leaves A equal to the pointwise join of A and B: vertex add
\* and remove maps are the key-wise unions with the greater timestamp on
\* shared keys, the edge mapping has the sources of both (a source only B has
\* is created in A), each edge set joined the same way.
C15_MergeIsJoin ==
    \A r \in Replicas, o \in Replicas :
        GraphMerge(g[r], g[o]) = JoinGraph(g[r], g[o])

\* Two replicas that store different timestamps for one vertex, the greater
\* on the second, where the second has an edge source the first lacks.
C15_Witness ==
    \E r \in Replicas, o \in Replicas, e \in Keys, from \in Keys :
        /\ AddExist(g[r].vertices, e) /\ AddExist(g[o].vertices, e)
        /\ g[r].vertices.add[e] < g[o].vertices.add[e]
        /\ from \in DOMAIN g[o].edges
        /\ from \notin DOMAIN g[r].edges
        /\ GraphMerge(g[r], g[o]).edges[from] = g[o].edges[from]

\* Every key of m is a key of n with a timestamp that is not smaller.
MapGrows(m, n) ==
    /\ DOMAIN m \subseteq DOMAIN n
    /\ \A e \in DOMAIN m : m[e] <= n[e]

SetGrows(s, o) == MapGrows(s.add, o.add) /\ MapGrows(s.remove, o.remove)

GraphGrows(G, H) ==
    /\ SetGrows(G.vertices, H.vertices)
    /\ DOMAIN G.edges \subseteq DOMAIN H.edges
    /\ \A from \in DOMAIN G.edges : SetGrows(G.edges[from], H.edges[from])

\* C16: across every step no key leaves the vertex add map, the vertex remove
\* map, the edge mapping or an edge set's add or remove map, and no stored
\* timestamp decreases: a tombstone and an edge-set entry stay for ever.
C16_StateOnlyGrows == [][\A r \in Replicas : GraphGrows(g[r], g'[r])]_vars

\* A vertex that is contained again after its removal, its tombstone still
\* recorded, on a replica that also keeps an edge-set entry.
C16_Witness ==
    \E r \in Replicas, e \in Keys :
        /\ RemoveExist(g[r].vertices, e)
        /\ ContainsVertex(g[r], e)
        /\ g[r].vertices.remove[e] < g[r].vertices.add[e]
        /\ g[r].edges # EmptyGraph.edges

\* The maps m and n agree on every key but e.
SameBut(m, n, e) ==
    /\ (DOMAIN m) \ {e} = (DOMAIN n) \ {e}
    /\ \A x \in (DOMAIN m) \ {e} : m[x] = n[x]

\* The edge mappings of G and H agree on every source but from.
SameOtherSources(G, H, from) ==
    /\ (DOMAIN G.edges) \ {from} = (DOMAIN H.edges) \ {from}
    /\ \A x \in (DOMAIN G.edges) \ {from} : G.edges[x] = H.edges[x]

\* C17: AddVertex(e, t) changes at most the vertex add-timestamp of e and
\* RemoveVertex(e, t) at most the vertex remove-timestamp of e, both leaving
\* the edge mapping as it is; AddEdge(from, to, t) and RemoveEdge(from, to, t)
\* change at most the add, respectively remove, timestamp of to in
\* edges[from], leaving the vertex set and the edge sets of the other sources
\* as they are; A.Merge(B) leaves B as it is. Stated of every step that
\* changes the graph of a replica r (a step that changes none has no effect
\* to frame).
C17_MutatorFrames ==
    [][\A r \in Replicas :
          g'[r] # g[r] =>
             /\ \A e \in Keys, t \in Times :
                   /\ AddVertex(r, e, t) =>
                         /\ SameBut(g[r].vertices.add, g'[r].vertices.add, e)
                         /\ g'[r].vertices.remove = g[r].vertices.remove
                         /\ g'[r].edges = g[r].edges
                   /\ RemoveVertex(r, e, t) =>
                         /\ SameBut(g[r].vertices.remove, g'[r].vertices.remove, e)
                         /\ g'[r].vertices.add = g[r].vertices.add
                         /\ g'[r].edges = g[r].edges
             /\ \A from \in Keys, to \in Keys, t \in Times :
                   /\ AddEdge(r, from, to, t) =>
                         /\ SameBut(EdgeSet(g[r], from).add,
                                    EdgeSet(g'[r], from).add, to)
                         /\ EdgeSet(g'[r], from).remove = EdgeSet(g[r], from).remove
                         /\ SameOtherSources(g[r], g'[r], from)
                         /\ g'[r].vertices = g[r].vertices
                   /\ RemoveEdge(r, from, to, t) =>
                         /\ SameBut(EdgeSet(g[r], from).remove,
                                    EdgeSet(g'[r], from).remove, to)
                         /\ EdgeSet(g'[r], from).add = EdgeSet(g[r], from).add
                         /\ SameOtherSources(g[r], g'[r], from)
                         /\ g'[r].vertices = g[r].vertices
             /\ \A o \in Replicas : Merge(r, o) => g'[o] = g[o]]_vars

\* A replica that applied RemoveVertex to a vertex it no longer contains and
\* still holds that vertex's edge-set entry, the edge recorded in it.
C17_Witness ==
    \E r \in Replicas, e \in Keys, to \in Keys, t \in Times :
        /\ <<"RemoveVertex", e, e, t>> \in hist[r]
        /\ AddExist(g[r].vertices, e)
        /\ ~ContainsVertex(g[r], e)
        /\ e \in DOMAIN g[r].edges
        /\ Contains(g[r].edges[e], to)

\* The vertex reached from e by n lookups in the predecessor map.
RECURSIVE Back(_, _, _)
Back(prev, e, n) ==
    IF n = 0 \/ e \notin DOMAIN prev THEN e ELSE Back(prev, prev[e], n - 1)

\* The search loop's variant: the vertices not yet enqueued plus the vertices
\* waiting in the queue.
Variant == Cardinality(AllKeys \ DOMAIN previous) + Len(queue)

\* While the loop runs: the enqueued vertices are the keys of previous, none
\* waits twice, and following previous from any of them arrives at from.
C18_Now ==
    pc = "loop" =>
        /\ DOMAIN previous \subseteq AllKeys
        /\ \A i \in DOMAIN queue : queue[i] \in DOMAIN previous
        /\ \A i \in DOMAIN queue, j \in DOMAIN queue : queue[i] = queue[j] => i = j
        /\ \A e \in DOMAIN previous :
              \E n \in 0..Cardinality(DOMAIN previous) : Back(previous, e, n) = qfrom

\* One iteration: it pops the head, every vertex it enqueues was never
\* enqueued before and is recorded in previous, and the variant drops by one.
C18_Step ==
    (pc = "loop" /\ queue' # queue) =>
        /\ queue # <<>>
        /\ Len(queue') >= Len(queue) - 1
        /\ SubSeq(queue', 1, Len(queue) - 1) = Tail(queue)
        /\ \A i \in Len(queue)..Len(queue') :
              /\ queue'[i] \notin DOMAIN previous
              /\ queue'[i] \in DOMAIN previous'
        /\ pc' = "loop" => Variant' = Variant - 1

\* C18: AnyPath terminates on every graph, cycles and self-loops included:
\* a vertex is recorded in the predecessor map when it is enqueued and is
\* never enqueued again, so the loop runs at most once per vertex key, and
\* following the predecessors back from any reached vertex arrives at from.
\* The loop is left by a return or, on a vertex without an edge-set entry, by
\* the exception of edges.at(e).
C18_AnyPathTerminates ==
    /\ [](C18_Now)
    /\ [][C18_Step]_vars
    /\ (pc = "loop") ~> (pc \in {"returned", "threw"})

\* A search that went round a cycle of two vertices and came to its end
\* without reaching the third.
C18_Witness ==
    \E e \in AllKeys :
        /\ pc = "returned"
        /\ path = <<>>
        /\ e # qfrom
        /\ ContainsVertex(g[qr], qto)
        /\ ContainsEdge(g[qr], qfrom, e)
        /\ ContainsEdge(g[qr], e, qfrom)
        /\ DOMAIN previous = {qfrom, e}
        /\ previous[e] = qfrom

\* C19: ContainsEdge(from, to) answers true or false for every pair of keys,
\* also for keys never added, sources without an edge set and edges with a
\* tombstone only, and neither it nor AllConnectedVertices ever calls
\* AddTimestamp, RemoveTimestamp or edges.at for a key that is not there.
C19_ContainsEdgeTotal ==
    \A r \in Replicas :
        /\ \A from \in AllKeys, to \in AllKeys :
              /\ ContainsEdge(g[r], from, to) \in BOOLEAN
              /\ \A c \in ContainsEdgeCalls(g[r], from, to) : c.found
        /\ \A e \in AllKeys : \A c \in AllConnectedCalls(g[r], e) : c.found

\* A valid edge between two different vertices that were never removed, so
\* that ContainsEdge runs to its last statement without calling
\* RemoveTimestamp, while the opposite pair has a source without an edge set
\* and is answered without any accessor call.
C19_Witness ==
    \E r \in Replicas, from \in Keys, to \in Keys :
        /\ from # to
        /\ ContainsEdge(g[r], from, to)
        /\ ~RemoveExist(g[r].vertices, from)
        /\ ~RemoveExist(g[r].vertices, to)
        /\ Call("AddTimestamp", TRUE) \in ContainsEdgeCalls(g[r], from, to)
        /\ Call("RemoveTimestamp", TRUE) \notin ContainsEdgeCalls(g[r], from, to)
        /\ to \notin DOMAIN g[r].edges
        /\ ~ContainsEdge(g[r], to, from)
        /\ ContainsEdgeCalls(g[r], to, from) = {}

\* ContainsEdge without its third if statement: the edge is in edges[from],
\* both endpoints pass ContainsVertex, and the edge's add-timestamp is not
\* less than the add-timestamp of either endpoint.
ContainsEdgeNoRemovalCheck(G, from, to) ==
    IF from \notin DOMAIN G.edges \/ ~Contains(G.edges[from], to) THEN FALSE
    ELSE IF ~ContainsVertex(G, from) \/ ~ContainsVertex(G, to) THEN FALSE
    ELSE LET addTimestamp == AddTimestamp(G.edges[from], to) IN
         IF \/ addTimestamp < AddTimestamp(G.vertices, from)
            \/ addTimestamp < AddTimestamp(G.vertices, to)
         THEN FALSE
         ELSE TRUE

\* C20: the removal-dominance check of ContainsEdge is redundant: for every
\* pair (from, to) ContainsEdge answers as the predicate that checks only
\* that the edge is in edges[from], that both endpoints pass ContainsVertex
\* and that the edge's add-timestamp is not less than either endpoint's
\* add-timestamp, a live endpoint's add-timestamp exceeding its
\* remove-timestamp.
C20_RemovalCheckRedundant ==
    \A r \in Replicas, from \in AllKeys, to \in AllKeys :
        ContainsEdge(g[r], from, to) = ContainsEdgeNoRemovalCheck(g[r], from, to)

\* An edge in edges[from] between live endpoints that the removal-dominance
\* check rejects, an endpoint having been removed no earlier than the edge
\* was added and re-added later: the predicate without that check rejects it
\* too.
C20_Witness ==
    \E r \in Replicas, from \in Keys, to \in Keys :
        /\ EdgeStructural(g[r], from, to)
        /\ EndpointsAlive(g[r], from, to)
        /\ ~NotRemovalDominated(g[r], from, to)
        /\ ~NotBeforeEndpoints(g[r], from, to)
        /\ ~ContainsEdgeNoRemovalCheck(g[r], from, to)
        /\ ~ContainsEdge(g[r], from, to)

====
